---- MODULE Spec2Model ----
(***************************************************************************)
(* ReserveX front end: booking, availability and favourites engine.        *)
(*                                                                         *)
(* Three implementations of the engine live in the repository and are      *)
(* modelled side by side, each under its own specification:                *)
(*   SpecSvc   - BookingService (remote call first, fallback to seed data  *)
(*               + localStorage overlay)                                   *)
(*   SpecAvail - RestaurantService.getAvailableSeats over the same state   *)
(*   SpecRead  - the list and record reads of BookingService               *)
(*   SpecUpd   - BookingService.updateBooking and bookings of few seats    *)
(*   SpecFav   - FavouriteService                                          *)
(*   SpecRev   - ReviewService                                             *)
(*   SpecDb    - lib/database.ts class Database (localStorage) driven by   *)
(*               the handlers of RestaurantDetailsPage and the dashboard   *)
(*   SpecDbFav - the favourite methods of class Database                   *)
(*   SpecDbRev - the review methods of class Database                      *)
(*   SpecMock  - class MockDatabase (in-memory arrays)                     *)
(*   SpecCall  - BookingService calls that await their api request at the  *)
(*               same time, with the timeout of the axios instance         *)
(*   SpecLogout - AuthService.logout and login, requests awaited as above  *)
(*   SpecAnon  - the creating operations of the three services before and  *)
(*               after the session ends                                    *)
(*                                                                         *)
(* Timestamps are integers (one unit = one value of Date.now()); the seed  *)
(* records carry the day of their createdAt counted from 2024-01-31.       *)
(* Contact fields, images and names of records take no part in any         *)
(* decision of the code and are left out of the records.                   *)
(***************************************************************************)
EXTENDS Integers, Sequences, FiniteSets, TLC

VARIABLES
    now,             \* Date.now()
    authToken,       \* localStorage 'reservex_auth_token' present
    storedUser,      \* localStorage 'reservex_current_user' (user id or NoUser)
    localBookings,   \* localStorage 'reservex_demo_bookings' (overlay)
    localFavourites, \* localStorage 'reservex_demo_favourites' (overlay)
    dbBookings,      \* Database: localStorage bookings collection
    dbFavourites,    \* Database: localStorage favourites collection
    tabs,            \* RestaurantDetailsPage component state, one per open tab
    mockBookings,    \* MockDatabase.bookings
    res,             \* outcome of the last operation, as its caller sees it
    prev,            \* the operation before the last, when a fallback toggle
    localReviews,    \* localStorage 'reservex_demo_reviews' (overlay)
    dbReviews,       \* Database: localStorage reviews collection
    dbRatings,       \* Database: rating and totalReviews of the restaurants
    seed,            \* demo-data.ts: the exported arrays the services read
    inflight,        \* the service calls whose api request is awaited
    demoMode         \* localStorage 'reservex_demo_mode' is 'true'

vars == <<now, authToken, storedUser, localBookings, localFavourites,
          dbBookings, dbFavourites, tabs, mockBookings, res, prev,
          localReviews, dbReviews, dbRatings, seed, inflight, demoMode>>

svcVars == <<now, authToken, storedUser, localBookings>>
favVars == <<localFavourites, prev>>
dbVars == <<dbBookings, dbFavourites, tabs>>
mockVars == <<mockBookings>>
revVars == <<localReviews, dbReviews, dbRatings>>
callVars == <<inflight>>

-----------------------------------------------------------------------------
(* Bounds of the model                                                     *)

MaxLocalBookings == 2
MaxLocalFavourites == 2
MaxDbBookings == 2
MaxMockBookings == 2
MaxTicks == 1
MaxLocalReviews == 2
MaxDbSubmits == 3
TimerSteps == 2

-----------------------------------------------------------------------------
(* Values                                                                  *)

NoUser == "null"
NoId == <<"none", 0>>
StartClock == 100

Statuses == {"pending", "confirmed", "completed", "cancelled"}

\* outcome of one api call: a 2xx answer, no answer (network error or the
\* axios timeout), a non-401 error answer, a 401 answer
RemoteOutcomes == {"ok", "unavailable", "rejected", "unauthorized"}

\* the restaurant ids, dates, slots and seat counts the callers pass
RestaurantIds == {"rest-1", "rest-2", "rest-404"}
Dates == {"2024-02-25", "2024-02-15"}
TimeSlots == {"7:00 PM", "8:00 PM"}
SeatChoices == {30, 47}
SvcDates == {"2024-02-25"}
SvcUser == "user-customer-1"
DemoCustomers == {"user-customer-1", "user-customer-2"}

-----------------------------------------------------------------------------
(* Sequence helpers standing for Array.prototype methods                   *)

RECURSIVE SumSeats(_)
SumSeats(bs) ==
    IF bs = <<>> THEN 0 ELSE Head(bs).seats + SumSeats(Tail(bs))

Filter(s, Test(_)) == SelectSeq(s, Test)

\* Array.prototype.findIndex: first index (1-based) or 0 when absent
FindIndex(s, Test(_)) ==
    IF \E i \in 1..Len(s) : Test(s[i])
    THEN CHOOSE i \in 1..Len(s) : Test(s[i]) /\ \A j \in 1..(i-1) : ~Test(s[j])
    ELSE 0

Some(s, Test(_)) == \E i \in 1..Len(s) : Test(s[i])

Max(a, b) == IF a >= b THEN a ELSE b

-----------------------------------------------------------------------------
(* Seed dataset (services/demo-data.ts)                                    *)

\* rating is kept in tenths of a star: 48 stands for 4.8
DEMO_RESTAURANTS ==
    << [id |-> "rest-1", totalSeats |-> 50, rating |-> 48,
        totalReviews |-> 124],
       [id |-> "rest-2", totalSeats |-> 40, rating |-> 46,
        totalReviews |-> 89],
       [id |-> "rest-3", totalSeats |-> 45, rating |-> 47,
        totalReviews |-> 156],
       [id |-> "rest-4", totalSeats |-> 60, rating |-> 43,
        totalReviews |-> 201],
       [id |-> "rest-5", totalSeats |-> 55, rating |-> 45,
        totalReviews |-> 178],
       [id |-> "rest-6", totalSeats |-> 48, rating |-> 46,
        totalReviews |-> 143],
       [id |-> "rest-7", totalSeats |-> 42, rating |-> 44,
        totalReviews |-> 112],
       [id |-> "rest-8", totalSeats |-> 50, rating |-> 45,
        totalReviews |-> 167],
       [id |-> "rest-9", totalSeats |-> 38, rating |-> 47,
        totalReviews |-> 134],
       [id |-> "rest-10", totalSeats |-> 35, rating |-> 46,
        totalReviews |-> 98] >>

\* id and role of the demo users
DEMO_USERS ==
    << [id |-> "user-customer-1", role |-> "customer"],
       [id |-> "user-customer-2", role |-> "customer"],
       [id |-> "user-manager-1", role |-> "manager"],
       [id |-> "user-admin-1", role |-> "admin"] >>

DemoBookingsData ==
    << [id |-> <<"booking", 1>>, restaurantId |-> "rest-1",
        userId |-> "user-customer-1", date |-> "2024-02-25",
        timeSlot |-> "7:00 PM", seats |-> 4, status |-> "confirmed",
        createdAt |-> 10],
       [id |-> <<"booking", 2>>, restaurantId |-> "rest-3",
        userId |-> "user-customer-1", date |-> "2024-02-22",
        timeSlot |-> "8:00 PM", seats |-> 2, status |-> "pending",
        createdAt |-> 15],
       [id |-> <<"booking", 3>>, restaurantId |-> "rest-5",
        userId |-> "user-customer-1", date |-> "2024-02-18",
        timeSlot |-> "6:30 PM", seats |-> 6, status |-> "completed",
        createdAt |-> 5],
       [id |-> <<"booking", 4>>, restaurantId |-> "rest-9",
        userId |-> "user-customer-2", date |-> "2024-02-23",
        timeSlot |-> "7:30 PM", seats |-> 5, status |-> "confirmed",
        createdAt |-> 12],
       [id |-> <<"booking", 5>>, restaurantId |-> "rest-2",
        userId |-> "user-customer-1", date |-> "2024-02-15",
        timeSlot |-> "8:00 PM", seats |-> 3, status |-> "cancelled",
        createdAt |-> 1] >>

\* the exported arrays as they are now: const bindings to mutable arrays
DEMO_BOOKINGS == seed.bookings
DEMO_FAVOURITES == seed.favourites
DEMO_REVIEWS == seed.reviews

HasRestaurant(rs, rid) == Some(rs, LAMBDA r : r.id = rid)

\* restaurants.find(r => r.id === rid), for an id that exists
FindRestaurant(rs, rid) == rs[FindIndex(rs, LAMBDA r : r.id = rid)]

-----------------------------------------------------------------------------
(* Result records                                                          *)

\* path: "remote" when the api call answered 2xx, "fallback" when the catch
\* block served the call, "local" for operations that make no api call
PathOf(ro) == IF ro = "ok" THEN "remote" ELSE "fallback"

\* key: the arguments of the call, for the operations whose outcome is
\* compared with them; list: the array a list query returns from its catch
\* block (the one booking, for getBookingById); calls: the api requests the
\* operation made
NoKey == <<"", "", "">>

ResultK(op, path, kind, err, id, val, key) ==
    [op |-> op, path |-> path, kind |-> kind, err |-> err, id |-> id,
     val |-> val, key |-> key, list |-> <<>>,
     calls |-> IF path = "local" THEN 0 ELSE 1]

Result(op, path, kind, err, id, val) ==
    ResultK(op, path, kind, err, id, val, NoKey)

InitRes == Result("init", "local", "ok", "", NoId, 0)

\* what prev keeps of an outcome: a toggleFavourite that the catch blocks
\* served and that returned a value; nothing of any other outcome
Remembered(r) ==
    IF r.op = "toggleFavourite" /\ r.path = "fallback" /\ r.kind = "ok"
    THEN r ELSE InitRes

-----------------------------------------------------------------------------
(* api response interceptor (services/auth.service.ts)                     *)

\* a 401 removes the token and the stored user before the error is rethrown
TokenAfter(ro) == IF ro = "unauthorized" THEN FALSE ELSE authToken
UserAfter(ro) == IF ro = "unauthorized" THEN NoUser ELSE storedUser

-----------------------------------------------------------------------------
(* AuthService.login (services/auth.service.ts)                            *)

\* every outcome ends with a token and a user stored: the remote answer
\* stores the user it returned, the catch block the demo user of the email
login(user, ro) ==
    /\ authToken' = TRUE
    /\ storedUser' = user
    /\ demoMode' = (ro # "ok" \/ demoMode)
    /\ res' = Result("login", PathOf(ro), "ok", "", NoId, 0)

Login ==
    /\ storedUser = NoUser
    /\ \E ro \in RemoteOutcomes : login(SvcUser, ro)
    /\ UNCHANGED <<now, localBookings, favVars, dbVars, mockVars, callVars,
                   revVars, seed>>

LoginAs ==
    /\ storedUser = NoUser
    /\ \E user \in DemoCustomers, ro \in RemoteOutcomes : login(user, ro)
    /\ prev' = Remembered(res)
    /\ UNCHANGED <<now, localBookings, localFavourites, dbVars, mockVars,
                   callVars, revVars, seed>>

getStoredUser == storedUser

getToken == authToken

isAuthenticated == getToken

\* logout as it would be if the three removeItem calls stood in the try
\* block, after the await, instead of the finally block
logout_try(ro) ==
    /\ authToken' = (ro # "ok" /\ TokenAfter(ro))
    /\ storedUser' = IF ro = "ok" THEN NoUser ELSE UserAfter(ro)
    /\ demoMode' = (ro # "ok" /\ demoMode)
    /\ res' = Result("logout", PathOf(ro), "ok", "", NoId, 0)

\* the finally block removes the token, the user and the demo-mode flag
\* whatever the api call did
logout(ro) ==
    /\ authToken' = FALSE
    /\ storedUser' = NoUser
    /\ demoMode' = FALSE
    /\ res' = Result("logout", PathOf(ro), "ok", "", NoId, 0)

Logout ==
    /\ \E ro \in RemoteOutcomes : logout(ro)
    /\ prev' = Remembered(res)
    /\ UNCHANGED <<now, localBookings, localFavourites, dbVars, mockVars,
                   callVars, revVars, seed>>

-----------------------------------------------------------------------------
(* BookingService (services/booking.service.ts)                            *)

LocalId(t) == <<"booking-demo", t>>

NewBooking(data, userId) ==
    [id |-> LocalId(now), restaurantId |-> data.restaurantId,
     userId |-> userId, date |-> data.date, timeSlot |-> data.timeSlot,
     seats |-> data.seats, status |-> "pending", createdAt |-> now]

saveDemoBooking(bookings, booking) == Append(bookings, booking)

createBooking(data, ro) ==
    /\ seed' = seed
    /\ authToken' = TokenAfter(ro)
    /\ storedUser' = UserAfter(ro)
    /\ IF ro = "ok"
       THEN /\ localBookings' = localBookings
            /\ res' = Result("createBooking", "remote", "ok", "", NoId, 0)
       ELSE IF UserAfter(ro) = NoUser
       THEN /\ localBookings' = localBookings
            /\ res' = Result("createBooking", "fallback", "error",
                             "You must be logged in to make a booking",
                             NoId, 0)
       ELSE IF ~HasRestaurant(DEMO_RESTAURANTS, data.restaurantId)
       THEN /\ localBookings' = localBookings
            /\ res' = Result("createBooking", "fallback", "error",
                             "Restaurant not found", NoId, 0)
       ELSE /\ localBookings' =
                   saveDemoBooking(localBookings, NewBooking(data, UserAfter(ro)))
            /\ res' = Result("createBooking", "fallback", "ok", "",
                             LocalId(now), 0)

BookingData ==
    [restaurantId : RestaurantIds, date : SvcDates, timeSlot : TimeSlots,
     seats : SeatChoices]

CreateBooking ==
    /\ \E data \in BookingData, ro \in RemoteOutcomes : createBooking(data, ro)
    /\ Len(localBookings') <= MaxLocalBookings
    /\ UNCHANGED <<now, favVars, dbVars, mockVars, callVars, demoMode, revVars>>

\* localBookings[bookingIndex].status = status, then saveAllLocalBookings
SetStatus(bookings, index, status) ==
    [bookings EXCEPT ![index].status = status]

\* cancelBooking as it would be if the catch block looked the booking up in
\* DEMO_BOOKINGS as well and set the status on the object it found
cancelBooking_seed(id, ro) ==
    /\ authToken' = TokenAfter(ro)
    /\ storedUser' = UserAfter(ro)
    /\ IF ro = "ok"
       THEN /\ UNCHANGED <<localBookings, seed>>
            /\ res' = Result("cancelBooking", "remote", "ok", "", id, 0)
       ELSE LET demoIndex == FindIndex(DEMO_BOOKINGS, LAMBDA b : b.id = id)
                bookingIndex == FindIndex(localBookings, LAMBDA b : b.id = id)
            IN  IF demoIndex # 0
                THEN /\ seed' = [seed EXCEPT
                                    !.bookings[demoIndex].status = "cancelled"]
                     /\ localBookings' = localBookings
                     /\ res' = Result("cancelBooking", "fallback", "ok", "",
                                      id, 0)
                ELSE IF bookingIndex = 0
                THEN /\ UNCHANGED <<localBookings, seed>>
                     /\ res' = Result("cancelBooking", "fallback", "error",
                                      "Booking not found", id, 0)
                ELSE /\ seed' = seed
                     /\ localBookings' =
                            SetStatus(localBookings, bookingIndex, "cancelled")
                     /\ res' = Result("cancelBooking", "fallback", "ok", "",
                                      id, 0)

cancelBooking(id, ro) ==
    /\ seed' = seed
    /\ authToken' = TokenAfter(ro)
    /\ storedUser' = UserAfter(ro)
    /\ IF ro = "ok"
       THEN /\ localBookings' = localBookings
            /\ res' = Result("cancelBooking", "remote", "ok", "", id, 0)
       ELSE LET bookingIndex == FindIndex(localBookings, LAMBDA b : b.id = id)
            IN  IF bookingIndex = 0
                THEN /\ localBookings' = localBookings
                     /\ res' = Result("cancelBooking", "fallback", "error",
                                      "Booking not found", id, 0)
                ELSE /\ localBookings' =
                            SetStatus(localBookings, bookingIndex, "cancelled")
                     /\ res' = Result("cancelBooking", "fallback", "ok", "",
                                      id, 0)

BookingIds ==
    {<<"booking", 1>>} \cup {LocalId(t) : t \in StartClock..(StartClock + MaxTicks)}

CancelBooking ==
    /\ \E id \in BookingIds, ro \in RemoteOutcomes : cancelBooking(id, ro)
    /\ UNCHANGED <<now, favVars, dbVars, mockVars, callVars, demoMode, revVars>>

updateBookingStatus(id, status, ro) ==
    /\ seed' = seed
    /\ authToken' = TokenAfter(ro)
    /\ storedUser' = UserAfter(ro)
    /\ IF ro = "ok"
       THEN /\ localBookings' = localBookings
            /\ res' = Result("updateBookingStatus", "remote", "ok", "", id, 0)
       ELSE LET bookingIndex == FindIndex(localBookings, LAMBDA b : b.id = id)
            IN  IF bookingIndex = 0
                THEN /\ localBookings' = localBookings
                     /\ res' = Result("updateBookingStatus", "fallback",
                                      "error", "Booking not found", id, 0)
                ELSE /\ localBookings' =
                            SetStatus(localBookings, bookingIndex, status)
                     /\ res' = Result("updateBookingStatus", "fallback", "ok",
                                      "", id, 0)

UpdateBookingStatus ==
    /\ \E id \in BookingIds, status \in Statuses, ro \in RemoteOutcomes :
          updateBookingStatus(id, status, ro)
    /\ UNCHANGED <<now, favVars, dbVars, mockVars, callVars, demoMode, revVars>>

Tick ==
    /\ now < StartClock + MaxTicks
    /\ now' = now + 1
    /\ UNCHANGED <<authToken, storedUser, localBookings, favVars, dbVars,
                   mockVars, callVars, demoMode, revVars, res, seed>>

-----------------------------------------------------------------------------
(* RestaurantService.getAvailableSeats (services/restaurant.service.ts)    *)

\* Math.floor(totalSeats * 0.5) and Math.floor(totalSeats * 0.9)
minAvailable(totalSeats) == (totalSeats * 5) \div 10
maxAvailable(totalSeats) == (totalSeats * 9) \div 10

\* the values Math.floor(Math.random() * (max - min + 1)) + min can take
RandomAvailable(totalSeats) ==
    minAvailable(totalSeats)..maxAvailable(totalSeats)

\* answer is the random draw of the catch block; response.data of a remote
\* answer is the remote service's business and is recorded as 0
getAvailableSeats(rid, date, timeSlot, ro, answer) ==
    /\ seed' = seed
    /\ authToken' = TokenAfter(ro)
    /\ storedUser' = UserAfter(ro)
    /\ IF ro = "ok"
       THEN res' = ResultK("getAvailableSeats", "remote", "ok", "", NoId, 0,
                           <<rid, date, timeSlot>>)
       ELSE IF ~HasRestaurant(DEMO_RESTAURANTS, rid)
       THEN res' = ResultK("getAvailableSeats", "fallback", "error",
                           "Restaurant not found", NoId, 0,
                           <<rid, date, timeSlot>>)
       ELSE res' = ResultK("getAvailableSeats", "fallback", "ok", "", NoId,
                           answer, <<rid, date, timeSlot>>)

\* the draws of Math.random for the restaurant asked about (one value, unused,
\* when the call does not reach the draw)
Draws(rid, ro) ==
    IF ro # "ok" /\ HasRestaurant(DEMO_RESTAURANTS, rid)
    THEN RandomAvailable(FindRestaurant(DEMO_RESTAURANTS, rid).totalSeats)
    ELSE {0}

GetAvailableSeats ==
    /\ \E rid \in RestaurantIds, d \in SvcDates, s \in TimeSlots,
          ro \in RemoteOutcomes :
          \E answer \in Draws(rid, ro) : getAvailableSeats(rid, d, s, ro, answer)
    /\ UNCHANGED <<now, localBookings, favVars, dbVars, mockVars, callVars,
                   demoMode, revVars>>

-----------------------------------------------------------------------------
(* class Database (lib/database.ts), the localStorage database             *)

DbRestaurants ==
    << [id |-> "rest-1", totalSeats |-> 50, rating |-> 48,
        totalReviews |-> 124],
       [id |-> "rest-2", totalSeats |-> 40, rating |-> 46,
        totalReviews |-> 89],
       [id |-> "rest-3", totalSeats |-> 45, rating |-> 47,
        totalReviews |-> 156],
       [id |-> "rest-4", totalSeats |-> 60, rating |-> 43,
        totalReviews |-> 201],
       [id |-> "rest-5", totalSeats |-> 55, rating |-> 45,
        totalReviews |-> 178],
       [id |-> "rest-6", totalSeats |-> 48, rating |-> 46,
        totalReviews |-> 143],
       [id |-> "rest-7", totalSeats |-> 42, rating |-> 44,
        totalReviews |-> 112],
       [id |-> "rest-8", totalSeats |-> 50, rating |-> 45,
        totalReviews |-> 167],
       [id |-> "rest-9", totalSeats |-> 38, rating |-> 47,
        totalReviews |-> 134],
       [id |-> "rest-10", totalSeats |-> 35, rating |-> 46,
        totalReviews |-> 98] >>

DbId(t) == <<"booking", t>>

\* Database.createBooking: the caller's fields, with id and createdAt added
DbCreateBooking(bookings, booking) ==
    Append(bookings, [booking EXCEPT !.id = DbId(now), !.createdAt = now])

\* Database.updateBooking with updates = { status }
DbUpdateBooking(bookings, id, status) ==
    LET index == FindIndex(bookings, LAMBDA b : b.id = id)
    IN  IF index # 0 THEN [bookings EXCEPT ![index].status = status]
        ELSE bookings

DbGetAvailableSeats(bookings, restaurantId, date, timeSlot) ==
    IF ~HasRestaurant(DbRestaurants, restaurantId) THEN 0
    ELSE LET confirmedBookings ==
                 Filter(bookings, LAMBDA b :
                     /\ b.restaurantId = restaurantId
                     /\ b.date = date
                     /\ b.timeSlot = timeSlot
                     /\ (b.status = "confirmed" \/ b.status = "pending"))
             bookedSeats == SumSeats(confirmedBookings)
         IN  FindRestaurant(DbRestaurants, restaurantId).totalSeats - bookedSeats

-----------------------------------------------------------------------------
(* RestaurantDetailsPage and customer Dashboard over class Database.       *)
(* Every tab of the browser holds its own component state and shares the   *)
(* localStorage collections; the tabs belong to the logged-in customer.    *)

Tabs == {"tab1", "tab2"}
DbUser == "customer-1"
DbSeatChoices == {20, 30}

\* the slots the form is filled with: a base slot and the slots that differ
\* from it in the restaurant, in the date or in the time slot only
DbSlots ==
    { <<"rest-1", "2024-02-25", "7:00 PM">>, <<"rest-2", "2024-02-25", "7:00 PM">>,
      <<"rest-1", "2024-02-15", "7:00 PM">>, <<"rest-1", "2024-02-25", "8:00 PM">> }

\* useState initial values, also the values handleBooking resets the form to.
\* restaurant is the page's route parameter and is kept with the slot; seats
\* is read at submit only and is an input of handleBooking.
EmptyForm ==
    [restaurant |-> "", bookingDate |-> "", timeSlot |-> "",
     availableSeats |-> 0]

\* restaurant, date and time slot are set and the availability effect has run
FillForm(t, slot) ==
    /\ tabs' = [tabs EXCEPT ![t] =
                   [restaurant |-> slot[1], bookingDate |-> slot[2],
                    timeSlot |-> slot[3],
                    availableSeats |->
                        DbGetAvailableSeats(dbBookings, slot[1], slot[2], slot[3])]]
    /\ res' = Result("fillForm", "local", "ok", "", NoId, 0)
    /\ UNCHANGED <<now, dbBookings, dbFavourites>>

FillBookingForm ==
    /\ \E t \in Tabs, slot \in DbSlots : FillForm(t, slot)
    /\ UNCHANGED <<authToken, storedUser, localBookings, favVars, mockVars,
                   callVars, demoMode, revVars, seed>>

\* two submits are at least one millisecond apart: the clock has advanced
\* when the handler reads it
handleBooking(t, seats) ==
    LET f == tabs[t] IN
    IF f.restaurant = "" \/ f.bookingDate = "" \/ f.timeSlot = ""
    THEN /\ res' = Result("handleBooking", "local", "error",
                          "Please fill in all required fields", NoId, 0)
         /\ UNCHANGED <<now, dbBookings, dbFavourites, tabs>>
    ELSE IF seats > f.availableSeats
    THEN /\ res' = Result("handleBooking", "local", "error",
                          "Only N seats available for this time slot", NoId,
                          f.availableSeats)
         /\ UNCHANGED <<now, dbBookings, dbFavourites, tabs>>
    ELSE /\ dbBookings' = DbCreateBooking(dbBookings,
                [id |-> NoId, restaurantId |-> f.restaurant, userId |-> DbUser,
                 date |-> f.bookingDate, timeSlot |-> f.timeSlot,
                 seats |-> seats, status |-> "pending", createdAt |-> 0])
         /\ tabs' = [tabs EXCEPT ![t] = EmptyForm]
         /\ res' = Result("handleBooking", "local", "ok", "", DbId(now), 0)
         /\ now' = now + 1
         /\ UNCHANGED dbFavourites

HandleBooking ==
    /\ \E t \in Tabs, n \in DbSeatChoices : handleBooking(t, n)
    /\ Len(dbBookings') <= MaxDbBookings
    /\ UNCHANGED <<authToken, storedUser, localBookings, favVars, mockVars,
                   callVars, demoMode, revVars, seed>>

handleCancelBooking(bookingId) ==
    /\ dbBookings' = DbUpdateBooking(dbBookings, bookingId, "cancelled")
    /\ res' = Result("handleCancelBooking", "local", "ok", "", bookingId, 0)
    /\ UNCHANGED <<now, dbFavourites, tabs>>

\* the dashboard offers the bookings it loaded from the collection
HandleCancelBooking ==
    /\ \E i \in 1..Len(dbBookings) : handleCancelBooking(dbBookings[i].id)
    /\ UNCHANGED <<authToken, storedUser, localBookings, favVars, mockVars,
                   callVars, demoMode, revVars, seed>>

-----------------------------------------------------------------------------
(* Database favourites (lib/database.ts), called by handleToggleFavourite  *)
(* of RestaurantDetailsPage and handleRemoveFavourite of the dashboard     *)

DbUsers == {"customer-1", "admin-1"}
DbFavRestaurants == {"rest-1", "rest-2"}

DbIsFavourite(favourites, userId, restaurantId) ==
    Some(favourites, LAMBDA f : f.userId = userId /\ f.restaurantId = restaurantId)

\* favourites.splice(existingIndex, 1)
Splice(s, i) == SubSeq(s, 1, i - 1) \o SubSeq(s, i + 1, Len(s))

DbToggleFavourite(userId, restaurantId) ==
    LET existingIndex ==
            FindIndex(dbFavourites,
                      LAMBDA f : f.userId = userId /\ f.restaurantId = restaurantId)
    IN  IF existingIndex # 0
        THEN /\ dbFavourites' = Splice(dbFavourites, existingIndex)
             /\ res' = Result("dbToggleFavourite", "local", "ok", "", NoId, 0)
        ELSE /\ dbFavourites' =
                    Append(dbFavourites,
                           [id |-> <<"fav", now>>, userId |-> userId,
                            restaurantId |-> restaurantId, createdAt |-> now])
             /\ res' = Result("dbToggleFavourite", "local", "ok", "", NoId, 1)

HandleToggleFavourite ==
    /\ \E u \in DbUsers, rid \in DbFavRestaurants : DbToggleFavourite(u, rid)
    /\ UNCHANGED <<now, authToken, storedUser, localBookings, favVars, dbBookings,
                   tabs, mockVars, callVars, demoMode, revVars, seed>>

-----------------------------------------------------------------------------
(* FavouriteService (services/favourite.service.ts)                        *)

DemoFavouritesData ==
    << [id |-> <<"fav", 1>>, userId |-> "user-customer-1",
        restaurantId |-> "rest-1", createdAt |-> -11],
       [id |-> <<"fav", 2>>, userId |-> "user-customer-1",
        restaurantId |-> "rest-3", createdAt |-> -6],
       [id |-> <<"fav", 3>>, userId |-> "user-customer-1",
        restaurantId |-> "rest-9", createdAt |-> 1],
       [id |-> <<"fav", 4>>, userId |-> "user-customer-2",
        restaurantId |-> "rest-10", createdAt |-> 5] >>

getDemoFavouritesByUserId(userId) ==
    Filter(DEMO_FAVOURITES, LAMBDA fav : fav.userId = userId)

isDemoFavourite(userId, restaurantId) ==
    Some(DEMO_FAVOURITES,
         LAMBDA fav : fav.userId = userId /\ fav.restaurantId = restaurantId)

getLocalFavouritesByUserId(favs, userId) ==
    Filter(favs, LAMBDA f : f.userId = userId)

\* Array.prototype.sort with (a, b) => b.createdAt - a.createdAt: a stable
\* sort, newest first
RECURSIVE InsertByCreatedAt(_, _)
InsertByCreatedAt(sorted, x) ==
    IF sorted = <<>> THEN <<x>>
    ELSE IF Head(sorted).createdAt >= x.createdAt
         THEN <<Head(sorted)>> \o InsertByCreatedAt(Tail(sorted), x)
         ELSE <<x>> \o sorted

RECURSIVE SortNewestFirst(_)
SortNewestFirst(s) ==
    IF s = <<>> THEN <<>>
    ELSE InsertByCreatedAt(SortNewestFirst(SubSeq(s, 1, Len(s) - 1)), s[Len(s)])

\* catch block of getMyFavourites
MyFavouritesFallback(favs, user) ==
    IF user = NoUser THEN <<>>
    ELSE SortNewestFirst(getDemoFavouritesByUserId(user)
                         \o getLocalFavouritesByUserId(favs, user))

\* catch block of isFavourite
IsFavouriteFallback(favs, user, restaurantId) ==
    IF user = NoUser THEN FALSE
    ELSE IF isDemoFavourite(user, restaurantId) THEN TRUE
    ELSE Some(favs, LAMBDA f : f.userId = user /\ f.restaurantId = restaurantId)

\* the catch block of addFavourite as it would be without the check of the
\* stored user: the favourite is stored for whoever getStoredUser returns
AddFavouriteFallback_anon(favs, user, restaurantId) ==
    IF Some(favs, LAMBDA f : f.userId = user /\ f.restaurantId = restaurantId)
    THEN [favs |-> favs, err |-> "Restaurant is already in your favourites"]
    ELSE IF ~HasRestaurant(DEMO_RESTAURANTS, restaurantId)
    THEN [favs |-> favs, err |-> "Restaurant not found"]
    ELSE [favs |-> Append(favs, [id |-> <<"fav-demo", now>>, userId |-> user,
                                 restaurantId |-> restaurantId,
                                 createdAt |-> now]),
          err |-> ""]

\* catch block of addFavourite: the collection afterwards and the error thrown
AddFavouriteFallback(favs, user, restaurantId) ==
    IF user = NoUser
    THEN [favs |-> favs, err |-> "You must be logged in to add favourites"]
    ELSE IF Some(favs, LAMBDA f : f.userId = user /\ f.restaurantId = restaurantId)
    THEN [favs |-> favs, err |-> "Restaurant is already in your favourites"]
    ELSE IF ~HasRestaurant(DEMO_RESTAURANTS, restaurantId)
    THEN [favs |-> favs, err |-> "Restaurant not found"]
    ELSE [favs |-> Append(favs, [id |-> <<"fav-demo", now>>, userId |-> user,
                                 restaurantId |-> restaurantId,
                                 createdAt |-> now]),
          err |-> ""]

\* catch block of removeFavourite
RemoveFavouriteFallback(favs, user, restaurantId) ==
    IF user = NoUser
    THEN [favs |-> favs, err |-> "You must be logged in"]
    ELSE [favs |-> Filter(favs, LAMBDA f :
                       ~(f.userId = user /\ f.restaurantId = restaurantId)),
          err |-> ""]

Kind(err) == IF err = "" THEN "ok" ELSE "error"

addFavourite(restaurantId, ro) ==
    /\ seed' = seed
    /\ authToken' = TokenAfter(ro)
    /\ storedUser' = UserAfter(ro)
    /\ IF ro = "ok"
       THEN /\ localFavourites' = localFavourites
            /\ res' = Result("addFavourite", "remote", "ok", "", NoId, 0)
       ELSE LET r == AddFavouriteFallback(localFavourites, UserAfter(ro),
                                          restaurantId)
            IN  /\ localFavourites' = r.favs
                /\ res' = Result("addFavourite", "fallback", Kind(r.err), r.err,
                                 NoId, 0)

removeFavourite(restaurantId, ro) ==
    /\ seed' = seed
    /\ authToken' = TokenAfter(ro)
    /\ storedUser' = UserAfter(ro)
    /\ IF ro = "ok"
       THEN /\ localFavourites' = localFavourites
            /\ res' = Result("removeFavourite", "remote", "ok", "", NoId, 0)
       ELSE LET r == RemoveFavouriteFallback(localFavourites, UserAfter(ro),
                                             restaurantId)
            IN  /\ localFavourites' = r.favs
                /\ res' = Result("removeFavourite", "fallback", Kind(r.err),
                                 r.err, NoId, 0)

Bit(b) == IF b THEN 1 ELSE 0

\* answer is response.data.isFavourite of a remote answer
isFavourite(restaurantId, ro, answer) ==
    /\ seed' = seed
    /\ authToken' = TokenAfter(ro)
    /\ storedUser' = UserAfter(ro)
    /\ localFavourites' = localFavourites
    /\ IF ro = "ok"
       THEN res' = Result("isFavourite", "remote", "ok", "", NoId, Bit(answer))
       ELSE res' = Result("isFavourite", "fallback", "ok", "", NoId,
                          Bit(IsFavouriteFallback(localFavourites, UserAfter(ro),
                                                  restaurantId)))

getMyFavourites(ro) ==
    /\ seed' = seed
    /\ authToken' = TokenAfter(ro)
    /\ storedUser' = UserAfter(ro)
    /\ localFavourites' = localFavourites
    /\ IF ro = "ok"
       THEN res' = Result("getMyFavourites", "remote", "ok", "", NoId, 0)
       ELSE LET list == MyFavouritesFallback(localFavourites, UserAfter(ro))
            IN  res' = [Result("getMyFavourites", "fallback", "ok", "", NoId,
                               Len(list)) EXCEPT !.list = list]

\* toggleFavourite makes up to three api calls: its own (ro1), the one of
\* isFavourite (ro2) and the one of removeFavourite or addFavourite (ro3); a
\* 401 of any of them clears the session for the rest; the catch block
\* always makes the second and the third. answer is
\* response.data.isFavourite of the first of ro1 and ro2 that succeeds
SessionAfter(user, ro) == IF ro = "unauthorized" THEN NoUser ELSE user

\* toggleFavourite as it would be if a remote answer were mirrored into the
\* overlay: the remote result is returned and the overlay is written as well
toggleFavourite_mirrored(restaurantId, ro1, ro2, answer, ro3) ==
    LET u1 == SessionAfter(storedUser, ro1)
        u2 == SessionAfter(u1, ro2)
        u3 == SessionAfter(u2, ro3)
        isFav == IF ro2 = "ok" THEN answer
                 ELSE IsFavouriteFallback(localFavourites, u2, restaurantId)
        r == IF ro3 = "ok" THEN [favs |-> localFavourites, err |-> ""]
             ELSE IF isFav
             THEN RemoveFavouriteFallback(localFavourites, u3, restaurantId)
             ELSE AddFavouriteFallback(localFavourites, u3, restaurantId)
        path == IF ro2 = "ok" \/ ro3 = "ok" THEN "mixed" ELSE "fallback"
        \* the caller, the restaurant and whether it was a favourite of the
        \* caller (in seed or overlay) when the call was made
        key == <<restaurantId, storedUser,
                 IF IsFavouriteFallback(localFavourites, storedUser, restaurantId)
                 THEN "favourite" ELSE "none">>
    IN  IF ro1 = "ok"
        THEN /\ UNCHANGED <<authToken, storedUser, seed>>
             /\ localFavourites' =
                    IF answer
                    THEN AddFavouriteFallback(localFavourites, storedUser,
                                              restaurantId).favs
                    ELSE RemoveFavouriteFallback(localFavourites, storedUser,
                                                 restaurantId).favs
             /\ res' = ResultK("toggleFavourite", "remote", "ok", "", NoId,
                               Bit(answer), key)
        ELSE /\ seed' = seed
             /\ storedUser' = u3
             /\ authToken' = (authToken /\ "unauthorized" \notin {ro1, ro2, ro3})
             /\ localFavourites' = r.favs
             /\ res' = [ResultK("toggleFavourite", path, Kind(r.err), r.err,
                                NoId, IF r.err = "" THEN Bit(~isFav) ELSE 0,
                                key) EXCEPT !.calls = 3]

toggleFavourite(restaurantId, ro1, ro2, answer, ro3) ==
    LET u1 == SessionAfter(storedUser, ro1)
        u2 == SessionAfter(u1, ro2)
        u3 == SessionAfter(u2, ro3)
        isFav == IF ro2 = "ok" THEN answer
                 ELSE IsFavouriteFallback(localFavourites, u2, restaurantId)
        r == IF ro3 = "ok" THEN [favs |-> localFavourites, err |-> ""]
             ELSE IF isFav
             THEN RemoveFavouriteFallback(localFavourites, u3, restaurantId)
             ELSE AddFavouriteFallback(localFavourites, u3, restaurantId)
        path == IF ro2 = "ok" \/ ro3 = "ok" THEN "mixed" ELSE "fallback"
        \* the caller, the restaurant and whether it was a favourite of the
        \* caller (in seed or overlay) when the call was made
        key == <<restaurantId, storedUser,
                 IF IsFavouriteFallback(localFavourites, storedUser, restaurantId)
                 THEN "favourite" ELSE "none">>
    IN  IF ro1 = "ok"
        THEN /\ UNCHANGED <<authToken, storedUser, localFavourites, seed>>
             /\ res' = ResultK("toggleFavourite", "remote", "ok", "", NoId,
                               Bit(answer), key)
        ELSE /\ seed' = seed
             /\ storedUser' = u3
             /\ authToken' = (authToken /\ "unauthorized" \notin {ro1, ro2, ro3})
             /\ localFavourites' = r.favs
             /\ res' = [ResultK("toggleFavourite", path, Kind(r.err), r.err,
                                NoId, IF r.err = "" THEN Bit(~isFav) ELSE 0,
                                key) EXCEPT !.calls = 3]

FavRestaurantIds == {"rest-1", "rest-2", "rest-404"}

AddFavourite ==
    /\ \E rid \in FavRestaurantIds, ro \in RemoteOutcomes : addFavourite(rid, ro)
    /\ Len(localFavourites') <= MaxLocalFavourites
    /\ prev' = Remembered(res)
    /\ UNCHANGED <<now, localBookings, dbVars, mockVars, callVars, demoMode,
                   revVars>>

RemoveFavourite ==
    /\ \E rid \in FavRestaurantIds, ro \in RemoteOutcomes : removeFavourite(rid, ro)
    /\ prev' = Remembered(res)
    /\ UNCHANGED <<now, localBookings, dbVars, mockVars, callVars, demoMode,
                   revVars>>

IsFavourite ==
    /\ \E rid \in FavRestaurantIds, ro \in RemoteOutcomes, answer \in BOOLEAN :
          isFavourite(rid, ro, answer)
    /\ prev' = Remembered(res)
    /\ UNCHANGED <<now, localBookings, dbVars, mockVars, callVars, demoMode,
                   revVars>>

GetMyFavourites ==
    /\ \E ro \in RemoteOutcomes : getMyFavourites(ro)
    /\ prev' = Remembered(res)
    /\ UNCHANGED <<now, localBookings, dbVars, mockVars, callVars, demoMode,
                   revVars>>

ToggleFavourite ==
    /\ \E rid \in FavRestaurantIds, ro1, ro2, ro3 \in RemoteOutcomes,
          answer \in BOOLEAN : toggleFavourite(rid, ro1, ro2, answer, ro3)
    /\ Len(localFavourites') <= MaxLocalFavourites
    /\ prev' = Remembered(res)
    /\ UNCHANGED <<now, localBookings, dbVars, mockVars, callVars, demoMode,
                   revVars>>

-----------------------------------------------------------------------------
(* class MockDatabase (the in-memory mock data module)                     *)

INITIAL_RESTAURANTS ==
    << [id |-> "1", totalSeats |-> 60],
       [id |-> "2", totalSeats |-> 45],
       [id |-> "3", totalSeats |-> 50],
       [id |-> "4", totalSeats |-> 40],
       [id |-> "5", totalSeats |-> 35],
       [id |-> "6", totalSeats |-> 55],
       [id |-> "7", totalSeats |-> 30],
       [id |-> "8", totalSeats |-> 48],
       [id |-> "9", totalSeats |-> 42] >>

\* "today" is the date the module was loaded on
INITIAL_BOOKINGS ==
    << [id |-> <<"b", 1>>, userId |-> "1", restaurantId |-> "1",
        date |-> "today", timeSlot |-> "6:00 PM - 8:00 PM", guests |-> 4,
        status |-> "confirmed", createdAt |-> StartClock] >>

RECURSIVE SumGuests(_)
SumGuests(bs) ==
    IF bs = <<>> THEN 0 ELSE Head(bs).guests + SumGuests(Tail(bs))

MockGetAvailableSeats(bookings, restaurantId, date, timeSlot) ==
    IF ~HasRestaurant(INITIAL_RESTAURANTS, restaurantId) THEN 0
    ELSE LET existingBookings ==
                 Filter(bookings, LAMBDA b :
                     /\ b.restaurantId = restaurantId
                     /\ b.date = date
                     /\ b.timeSlot = timeSlot
                     /\ b.status = "confirmed")
             bookedSeats == SumGuests(existingBookings)
         IN  Max(0, FindRestaurant(INITIAL_RESTAURANTS, restaurantId).totalSeats
                        - bookedSeats)

\* rnd is the value of Math.random().toString(36).substr(2, 9)
MockCreateBooking(booking, rnd) ==
    LET available == MockGetAvailableSeats(mockBookings, booking.restaurantId,
                                           booking.date, booking.timeSlot)
    IN  IF available < booking.guests
        THEN /\ mockBookings' = mockBookings
             /\ res' = Result("mockCreateBooking", "local", "error",
                              "Not enough seats available.", NoId, 0)
        ELSE /\ mockBookings' =
                    Append(mockBookings,
                           [id |-> <<"rnd", rnd>>, userId |-> booking.userId,
                            restaurantId |-> booking.restaurantId,
                            date |-> booking.date, timeSlot |-> booking.timeSlot,
                            guests |-> booking.guests, status |-> "confirmed",
                            createdAt |-> now])
             /\ res' = Result("mockCreateBooking", "local", "ok", "",
                              <<"rnd", rnd>>, 0)

MockCancelBooking(bookingId) ==
    LET index == FindIndex(mockBookings, LAMBDA b : b.id = bookingId)
    IN  /\ mockBookings' =
               IF index # 0
               THEN [mockBookings EXCEPT ![index].status = "cancelled"]
               ELSE mockBookings
        /\ res' = Result("mockCancelBooking", "local", "ok", "", bookingId, 0)

MockRestaurantIds == {"1", "2", "404"}
MockDates == {"today", "tomorrow"}
MockTimeSlots == {"6:00 PM - 8:00 PM", "8:00 PM - 10:00 PM"}
MockGuestChoices == {20, 40}
MockRandomIds == {1, 2}

MockBookingData ==
    [userId : {"1"}, restaurantId : MockRestaurantIds, date : MockDates,
     timeSlot : MockTimeSlots, guests : MockGuestChoices]

MockCreate ==
    /\ \E booking \in MockBookingData, rnd \in MockRandomIds :
          MockCreateBooking(booking, rnd)
    /\ Len(mockBookings') <= MaxMockBookings
    /\ UNCHANGED <<svcVars, favVars, dbVars, callVars, demoMode, revVars, seed>>

MockCancel ==
    /\ \E i \in 1..Len(mockBookings) : MockCancelBooking(mockBookings[i].id)
    /\ UNCHANGED <<svcVars, favVars, dbVars, callVars, demoMode, revVars, seed>>

MockAvailability ==
    /\ \E rid \in MockRestaurantIds, d \in MockDates, s \in MockTimeSlots :
          res' = ResultK("mockGetAvailableSeats", "local", "ok", "", NoId,
                         MockGetAvailableSeats(mockBookings, rid, d, s),
                         <<rid, d, s>>)
    /\ UNCHANGED <<svcVars, favVars, dbVars, mockVars, callVars, demoMode,
                   revVars, seed>>

-----------------------------------------------------------------------------
(* BookingService reads and updateBooking; RestaurantService reads         *)

getDemoBookingsByUserId(userId) ==
    Filter(DEMO_BOOKINGS, LAMBDA booking : booking.userId = userId)

getLocalBookingsByUserId(bookings, userId) ==
    Filter(bookings, LAMBDA b : b.userId = userId)

\* catch block of getMyBookings
MyBookingsFallback(bookings, user) ==
    IF user = NoUser THEN <<>>
    ELSE SortNewestFirst(getDemoBookingsByUserId(user)
                         \o getLocalBookingsByUserId(bookings, user))

\* catch block of getBookingById: the bookings found, seed first; getBookingById
\* returns the first one and throws 'Booking not found' when there is none
BookingByIdFallback(bookings, id) ==
    LET demo == Filter(DEMO_BOOKINGS, LAMBDA b : b.id = id)
    IN  IF demo # <<>> THEN demo ELSE Filter(bookings, LAMBDA b : b.id = id)

\* a filter field that is absent (or the empty string) filters nothing
Passes(field, wanted) == wanted = "" \/ field = wanted

NoFilters == [status |-> "", restaurantId |-> "", userId |-> "", date |-> ""]

\* catch block of getRestaurantBookings (filters: status, date)
RestaurantBookingsFallback(bookings, restaurantId, filters) ==
    Filter(DEMO_BOOKINGS \o bookings, LAMBDA b :
        /\ b.restaurantId = restaurantId
        /\ Passes(b.status, filters.status)
        /\ Passes(b.date, filters.date))

\* catch block of getAllBookings
AllBookingsFallback(bookings, filters) ==
    Filter(DEMO_BOOKINGS \o bookings, LAMBDA b :
        /\ Passes(b.status, filters.status)
        /\ Passes(b.restaurantId, filters.restaurantId)
        /\ Passes(b.userId, filters.userId)
        /\ Passes(b.date, filters.date))

\* a list read: the session after the api call and the list the catch block
\* returns
ListRead(op, ro, list, key) ==
    /\ seed' = seed
    /\ authToken' = TokenAfter(ro)
    /\ storedUser' = UserAfter(ro)
    /\ localBookings' = localBookings
    /\ IF ro = "ok"
       THEN res' = ResultK(op, "remote", "ok", "", NoId, 0, key)
       ELSE res' = [ResultK(op, "fallback", "ok", "", NoId, Len(list), key)
                       EXCEPT !.list = list]

getMyBookings(ro) ==
    ListRead("getMyBookings", ro,
             MyBookingsFallback(localBookings, UserAfter(ro)), NoKey)

getRestaurantBookings(restaurantId, filters, ro) ==
    ListRead("getRestaurantBookings", ro,
             RestaurantBookingsFallback(localBookings, restaurantId, filters),
             <<restaurantId, filters.status, filters.date>>)

getAllBookings(filters, ro) ==
    ListRead("getAllBookings", ro, AllBookingsFallback(localBookings, filters),
             <<filters.restaurantId, filters.status, filters.userId>>)

getBookingById(id, ro) ==
    /\ seed' = seed
    /\ authToken' = TokenAfter(ro)
    /\ storedUser' = UserAfter(ro)
    /\ localBookings' = localBookings
    /\ IF ro = "ok"
       THEN res' = Result("getBookingById", "remote", "ok", "", id, 0)
       ELSE IF BookingByIdFallback(localBookings, id) = <<>>
       THEN res' = Result("getBookingById", "fallback", "error",
                          "Booking not found", id, 0)
       ELSE res' = [Result("getBookingById", "fallback", "ok", "", id, 0)
                       EXCEPT !.list =
                           <<Head(BookingByIdFallback(localBookings, id))>>]

\* RestaurantService.getRestaurantById
getRestaurantById(id, ro) ==
    /\ seed' = seed
    /\ authToken' = TokenAfter(ro)
    /\ storedUser' = UserAfter(ro)
    /\ localBookings' = localBookings
    /\ IF ro = "ok"
       THEN res' = ResultK("getRestaurantById", "remote", "ok", "", NoId, 0,
                           <<id, "", "">>)
       ELSE IF ~HasRestaurant(DEMO_RESTAURANTS, id)
       THEN res' = ResultK("getRestaurantById", "fallback", "error",
                           "Restaurant not found", NoId, 0, <<id, "", "">>)
       ELSE res' = ResultK("getRestaurantById", "fallback", "ok", "", NoId,
                           FindRestaurant(DEMO_RESTAURANTS, id).totalSeats,
                           <<id, "", "">>)

\* data is a Partial<CreateBookingData>: hasSeats and hasTimeSlot tell which
\* of its fields are present; the catch block merges them into the booking
updateBooking(id, data, ro) ==
    /\ seed' = seed
    /\ authToken' = TokenAfter(ro)
    /\ storedUser' = UserAfter(ro)
    /\ IF ro = "ok"
       THEN /\ localBookings' = localBookings
            /\ res' = Result("updateBooking", "remote", "ok", "", id, 0)
       ELSE LET bookingIndex == FindIndex(localBookings, LAMBDA b : b.id = id)
                b == localBookings[bookingIndex]
            IN  IF bookingIndex = 0
                THEN /\ localBookings' = localBookings
                     /\ res' = Result("updateBooking", "fallback", "error",
                                      "Booking not found", id, 0)
                ELSE /\ localBookings' =
                            [localBookings EXCEPT ![bookingIndex] =
                                [b EXCEPT
                                    !.seats = IF data.hasSeats THEN data.seats
                                              ELSE b.seats,
                                    !.timeSlot = IF data.hasTimeSlot
                                                 THEN data.timeSlot
                                                 ELSE b.timeSlot]]
                     /\ res' = Result("updateBooking", "fallback", "ok", "",
                                      id, 0)

ReadFilters ==
    { NoFilters, [NoFilters EXCEPT !.status = "pending"],
      [NoFilters EXCEPT !.date = "2024-02-25"] }

GetMyBookings ==
    /\ \E ro \in RemoteOutcomes : getMyBookings(ro)
    /\ UNCHANGED <<now, favVars, dbVars, mockVars, callVars, demoMode, revVars>>

GetRestaurantBookings ==
    /\ \E rid \in RestaurantIds, filters \in ReadFilters, ro \in RemoteOutcomes :
          getRestaurantBookings(rid, filters, ro)
    /\ UNCHANGED <<now, favVars, dbVars, mockVars, callVars, demoMode, revVars>>

GetAllBookings ==
    /\ \E filters \in ReadFilters, ro \in RemoteOutcomes :
          getAllBookings(filters, ro)
    /\ UNCHANGED <<now, favVars, dbVars, mockVars, callVars, demoMode, revVars>>

GetBookingById ==
    /\ \E id \in BookingIds \cup {<<"booking", 404>>}, ro \in RemoteOutcomes :
          getBookingById(id, ro)
    /\ UNCHANGED <<now, favVars, dbVars, mockVars, callVars, demoMode, revVars>>

GetRestaurantById ==
    /\ \E id \in RestaurantIds, ro \in RemoteOutcomes : getRestaurantById(id, ro)
    /\ UNCHANGED <<now, favVars, dbVars, mockVars, callVars, demoMode, revVars>>

\* bookings of few seats, and of none, for one slot
SmallSeatChoices == {0, 2}
SmallBookingData ==
    [restaurantId : {"rest-1"}, date : SvcDates, timeSlot : {"7:00 PM"},
     seats : SmallSeatChoices]

CreateSmallBooking ==
    /\ \E data \in SmallBookingData, ro \in RemoteOutcomes :
          createBooking(data, ro)
    /\ Len(localBookings') <= MaxLocalBookings
    /\ UNCHANGED <<now, favVars, dbVars, mockVars, callVars, demoMode, revVars>>

BookingUpdates ==
    { [hasSeats |-> TRUE, seats |-> 0, hasTimeSlot |-> FALSE, timeSlot |-> ""],
      [hasSeats |-> TRUE, seats |-> 47, hasTimeSlot |-> FALSE, timeSlot |-> ""],
      [hasSeats |-> FALSE, seats |-> 0, hasTimeSlot |-> TRUE,
       timeSlot |-> "8:00 PM"] }

UpdateBooking ==
    /\ \E id \in BookingIds, data \in BookingUpdates, ro \in RemoteOutcomes :
          updateBooking(id, data, ro)
    /\ UNCHANGED <<now, favVars, dbVars, mockVars, callVars, demoMode, revVars>>

-----------------------------------------------------------------------------
(* ReviewService (services/review.service.ts)                              *)

DemoReviewsData ==
    << [id |-> <<"review", 1>>, restaurantId |-> "rest-1",
        userId |-> "user-customer-1", rating |-> 5, createdAt |-> 1],
       [id |-> <<"review", 2>>, restaurantId |-> "rest-1",
        userId |-> "user-customer-2", rating |-> 4, createdAt |-> -3],
       [id |-> <<"review", 3>>, restaurantId |-> "rest-3",
        userId |-> "user-customer-1", rating |-> 5, createdAt |-> 5],
       [id |-> <<"review", 4>>, restaurantId |-> "rest-5",
        userId |-> "user-customer-2", rating |-> 4, createdAt |-> 3],
       [id |-> <<"review", 5>>, restaurantId |-> "rest-9",
        userId |-> "user-customer-1", rating |-> 5, createdAt |-> -1] >>

getDemoReviewsByRestaurantId(restaurantId) ==
    Filter(DEMO_REVIEWS, LAMBDA review : review.restaurantId = restaurantId)

getLocalReviewsByRestaurantId(reviews, restaurantId) ==
    Filter(reviews, LAMBDA r : r.restaurantId = restaurantId)

getLocalReviewsByUserId(reviews, userId) ==
    Filter(reviews, LAMBDA r : r.userId = userId)

ReviewId(t) == <<"review-demo", t>>

saveDemoReview(reviews, review) == Append(reviews, review)

\* catch block of getRestaurantReviews
RestaurantReviewsFallback(reviews, restaurantId) ==
    SortNewestFirst(getDemoReviewsByRestaurantId(restaurantId)
                    \o getLocalReviewsByRestaurantId(reviews, restaurantId))

\* catch block of getMyReviews
MyReviewsFallback(reviews, user) ==
    IF user = NoUser THEN <<>>
    ELSE SortNewestFirst(Filter(DEMO_REVIEWS, LAMBDA r : r.userId = user)
                         \o getLocalReviewsByUserId(reviews, user))

createReview(data, ro) ==
    /\ seed' = seed
    /\ authToken' = TokenAfter(ro)
    /\ storedUser' = UserAfter(ro)
    /\ IF ro = "ok"
       THEN /\ localReviews' = localReviews
            /\ res' = ResultK("createReview", "remote", "ok", "", NoId, 0,
                              <<data.restaurantId, "", "">>)
       ELSE IF UserAfter(ro) = NoUser
       THEN /\ localReviews' = localReviews
            /\ res' = ResultK("createReview", "fallback", "error",
                              "You must be logged in to write a review", NoId,
                              0, <<data.restaurantId, "", "">>)
       ELSE IF data.rating < 1 \/ data.rating > 5
       THEN /\ localReviews' = localReviews
            /\ res' = ResultK("createReview", "fallback", "error",
                              "Rating must be between 1 and 5 stars", NoId, 0,
                              <<data.restaurantId, "", "">>)
       ELSE /\ localReviews' =
                   saveDemoReview(localReviews,
                       [id |-> ReviewId(now),
                        restaurantId |-> data.restaurantId,
                        userId |-> UserAfter(ro), rating |-> data.rating,
                        createdAt |-> now])
            /\ res' = ResultK("createReview", "fallback", "ok", "",
                              ReviewId(now), 0, <<data.restaurantId, "", "">>)

\* data is a Partial<CreateReviewData>: hasRating tells whether data.rating
\* is defined
updateReview(id, data, ro) ==
    /\ seed' = seed
    /\ authToken' = TokenAfter(ro)
    /\ storedUser' = UserAfter(ro)
    /\ IF ro = "ok"
       THEN /\ localReviews' = localReviews
            /\ res' = Result("updateReview", "remote", "ok", "", id, 0)
       ELSE LET reviewIndex == FindIndex(localReviews, LAMBDA r : r.id = id)
            IN  IF reviewIndex = 0
                THEN /\ localReviews' = localReviews
                     /\ res' = Result("updateReview", "fallback", "error",
                                      "Review not found", id, 0)
                ELSE IF data.hasRating /\ (data.rating < 1 \/ data.rating > 5)
                THEN /\ localReviews' = localReviews
                     /\ res' = Result("updateReview", "fallback", "error",
                                      "Rating must be between 1 and 5 stars",
                                      id, 0)
                ELSE /\ localReviews' =
                            IF data.hasRating
                            THEN [localReviews EXCEPT
                                      ![reviewIndex].rating = data.rating]
                            ELSE localReviews
                     /\ res' = ResultK("updateReview", "fallback", "ok", "",
                                       id, 0,
                                       <<localReviews[reviewIndex].restaurantId,
                                         "", "">>)

deleteReview(id, ro) ==
    /\ seed' = seed
    /\ authToken' = TokenAfter(ro)
    /\ storedUser' = UserAfter(ro)
    /\ IF ro = "ok"
       THEN /\ localReviews' = localReviews
            /\ res' = Result("deleteReview", "remote", "ok", "", id, 0)
       ELSE LET filteredReviews == Filter(localReviews, LAMBDA r : r.id # id)
                i == FindIndex(localReviews, LAMBDA r : r.id = id)
            IN  IF Len(filteredReviews) = Len(localReviews)
                THEN /\ localReviews' = localReviews
                     /\ res' = Result("deleteReview", "fallback", "error",
                                      "Review not found", id, 0)
                ELSE /\ localReviews' = filteredReviews
                     /\ res' = ResultK("deleteReview", "fallback", "ok", "", id,
                                       0, <<localReviews[i].restaurantId,
                                            "", "">>)

getRestaurantReviews(restaurantId, ro) ==
    /\ seed' = seed
    /\ authToken' = TokenAfter(ro)
    /\ storedUser' = UserAfter(ro)
    /\ localReviews' = localReviews
    /\ IF ro = "ok"
       THEN res' = Result("getRestaurantReviews", "remote", "ok", "", NoId, 0)
       ELSE LET list == RestaurantReviewsFallback(localReviews, restaurantId)
            IN  res' = [ResultK("getRestaurantReviews", "fallback", "ok", "",
                                NoId, Len(list), <<restaurantId, "", "">>)
                        EXCEPT !.list = list]

getMyReviews(ro) ==
    /\ seed' = seed
    /\ authToken' = TokenAfter(ro)
    /\ storedUser' = UserAfter(ro)
    /\ localReviews' = localReviews
    /\ IF ro = "ok"
       THEN res' = Result("getMyReviews", "remote", "ok", "", NoId, 0)
       ELSE LET list == MyReviewsFallback(localReviews, UserAfter(ro))
            IN  res' = [Result("getMyReviews", "fallback", "ok", "", NoId,
                               Len(list)) EXCEPT !.list = list]

ReviewRestaurantIds == {"rest-1", "rest-2"}
RatingChoices == {0, 2, 5}
ReviewData == [restaurantId : ReviewRestaurantIds, rating : RatingChoices]
ReviewUpdates == [hasRating : BOOLEAN, rating : RatingChoices]
ReviewIds ==
    {<<"review", 1>>} \cup {ReviewId(t) : t \in StartClock..(StartClock + MaxTicks)}

CreateReview ==
    /\ \E data \in ReviewData, ro \in RemoteOutcomes : createReview(data, ro)
    /\ Len(localReviews') <= MaxLocalReviews
    /\ UNCHANGED <<now, localBookings, favVars, dbVars, mockVars, callVars,
                   demoMode, dbReviews, dbRatings>>

UpdateReview ==
    /\ \E id \in ReviewIds, data \in ReviewUpdates, ro \in RemoteOutcomes :
          updateReview(id, data, ro)
    /\ UNCHANGED <<now, localBookings, favVars, dbVars, mockVars, callVars,
                   demoMode, dbReviews, dbRatings>>

DeleteReview ==
    /\ \E id \in ReviewIds, ro \in RemoteOutcomes : deleteReview(id, ro)
    /\ UNCHANGED <<now, localBookings, favVars, dbVars, mockVars, callVars,
                   demoMode, dbReviews, dbRatings>>

GetRestaurantReviews ==
    /\ \E rid \in ReviewRestaurantIds, ro \in RemoteOutcomes :
          getRestaurantReviews(rid, ro)
    /\ UNCHANGED <<now, localBookings, favVars, dbVars, mockVars, callVars,
                   demoMode, dbReviews, dbRatings>>

GetMyReviews ==
    /\ \E ro \in RemoteOutcomes : getMyReviews(ro)
    /\ UNCHANGED <<now, localBookings, favVars, dbVars, mockVars, callVars,
                   demoMode, dbReviews, dbRatings>>

-----------------------------------------------------------------------------
(* Database reviews (lib/database.ts), called by handleSubmitReview of     *)
(* RestaurantDetailsPage and handleDeleteReview of the dashboard           *)

DbInitialReviews ==
    << [id |-> <<"rev", 1>>, restaurantId |-> "rest-1",
        userId |-> "customer-1", rating |-> 5, createdAt |-> 10],
       [id |-> <<"rev", 2>>, restaurantId |-> "rest-1",
        userId |-> "customer-2", rating |-> 4, createdAt |-> 12],
       [id |-> <<"rev", 3>>, restaurantId |-> "rest-4",
        userId |-> "customer-3", rating |-> 5, createdAt |-> 14] >>

\* rating (in tenths) and totalReviews of the seeded restaurants collection
DbInitialRatings ==
    [id \in {DbRestaurants[i].id : i \in 1..Len(DbRestaurants)} |->
        LET r == FindRestaurant(DbRestaurants, id)
        IN  [rating |-> r.rating, totalReviews |-> r.totalReviews]]

RECURSIVE SumRatings(_)
SumRatings(rs) ==
    IF rs = <<>> THEN 0 ELSE Head(rs).rating + SumRatings(Tail(rs))

\* Math.round(avgRating * 10) for avgRating = sum / n, the value of
\* rating in tenths: halves round up
RoundedTenths(sum, n) ==
    IF n > 0 THEN (20 * sum + n) \div (2 * n) ELSE 0

DbReviewId(t) == <<"review", t>>

getReviewsByRestaurant(reviews, restaurantId) ==
    Filter(reviews, LAMBDA r : r.restaurantId = restaurantId)

getReviewsByUser(reviews, userId) ==
    Filter(reviews, LAMBDA r : r.userId = userId)

updateRestaurantRating(reviews, ratings, restaurantId) ==
    LET rs == getReviewsByRestaurant(reviews, restaurantId)
        totalReviews == Len(rs)
    IN  IF restaurantId \in DOMAIN ratings
        THEN [ratings EXCEPT ![restaurantId] =
                 [rating |-> RoundedTenths(SumRatings(rs), totalReviews),
                  totalReviews |-> totalReviews]]
        ELSE ratings

DbCreateReview(review) ==
    LET reviews == Append(dbReviews,
                       [review EXCEPT !.id = DbReviewId(now), !.createdAt = now])
    IN  /\ dbReviews' = reviews
        /\ dbRatings' = updateRestaurantRating(reviews, dbRatings,
                                               review.restaurantId)

DbDeleteReview(id) ==
    LET index == FindIndex(dbReviews, LAMBDA r : r.id = id)
        filtered == Filter(dbReviews, LAMBDA r : r.id # id)
    IN  IF index = 0
        THEN /\ UNCHANGED <<dbReviews, dbRatings>>
             /\ res' = Result("dbDeleteReview", "local", "error", "", id, 0)
        ELSE /\ dbReviews' = filtered
             /\ dbRatings' = updateRestaurantRating(filtered, dbRatings,
                                                    dbReviews[index].restaurantId)
             /\ res' = ResultK("dbDeleteReview", "local", "ok", "", id, 0,
                               <<dbReviews[index].restaurantId, "", "">>)

DbReviewRestaurants == {"rest-1", "rest-2"}
DbRatingChoices == {2, 5}

\* the page of restaurant rid: rating is the star picked, hasComment whether
\* the comment field holds text
handleSubmitReview(rid, rating, hasComment) ==
    IF ~hasComment
    THEN /\ res' = ResultK("handleSubmitReview", "local", "error",
                           "Please write a comment", NoId, 0, <<rid, "", "">>)
         /\ UNCHANGED <<now, dbReviews, dbRatings>>
    ELSE /\ DbCreateReview([id |-> NoId, restaurantId |-> rid,
                            userId |-> DbUser, rating |-> rating,
                            createdAt |-> 0])
         /\ res' = ResultK("handleSubmitReview", "local", "ok", "",
                           DbReviewId(now), 0, <<rid, "", "">>)
         /\ now' = now + 1

HandleSubmitReview ==
    /\ \E rid \in DbReviewRestaurants, rating \in DbRatingChoices,
          hasComment \in BOOLEAN : handleSubmitReview(rid, rating, hasComment)
    /\ now' <= StartClock + MaxDbSubmits
    /\ UNCHANGED <<authToken, storedUser, localBookings, favVars, dbVars,
                   mockVars, callVars, demoMode, localReviews, seed>>

\* the dashboard lists the reviews of the logged-in customer
handleDeleteReview(reviewId) ==
    /\ DbDeleteReview(reviewId)
    /\ UNCHANGED now

HandleDeleteReview ==
    /\ \E i \in 1..Len(dbReviews) :
          /\ dbReviews[i].userId = DbUser
          /\ handleDeleteReview(dbReviews[i].id)
    /\ UNCHANGED <<authToken, storedUser, localBookings, favVars, dbVars,
                   mockVars, callVars, demoMode, localReviews, seed>>

-----------------------------------------------------------------------------
(* Service calls in flight: `await api...` of BookingService and the timeout *)
(* of the axios instance (services/auth.service.ts)                         *)

\* axios.create({ ..., timeout: 30000 })
timeout ==
    30000

\* the calls that can be awaiting their api request at the same time
Calls == {"call1", "call2"}

NoData == [restaurantId |-> "", date |-> "", timeSlot |-> "", seats |-> 0]

\* phase: "idle" before the first call, "waiting" while the api request is
\* awaited, "done" once the call has returned or thrown. waited counts the
\* steps of timeout / TimerSteps ms since the request was sent; loaded is
\* the overlay as it was when the request was sent; path, kind and id are
\* those of the outcome
IdleCall ==
    [op |-> "idle", phase |-> "idle", data |-> NoData, id |-> NoId,
     waited |-> 0, loaded |-> <<>>, path |-> "", kind |-> ""]

Request(op, data, id) ==
    [op |-> op, phase |-> "waiting", data |-> data, id |-> id, waited |-> 0,
     loaded |-> localBookings, path |-> "", kind |-> ""]

\* the bookings and the ids the calls are made with
CallBookingData ==
    [restaurantId : {"rest-1"}, date : SvcDates, timeSlot : {"7:00 PM"},
     seats : {2}]
CallBookingIds == {<<"booking", 1>>, LocalId(StartClock)}

\* the createBooking calls that are awaiting their request
WaitingCreates ==
    {c \in Calls : inflight[c].phase = "waiting"
                      /\ inflight[c].op = "createBooking"}

\* the try block up to the await: the request is sent, nothing else happens
Dispatch(c) ==
    /\ inflight[c].phase # "waiting"
    /\ \/ /\ Len(localBookings) + Cardinality(WaitingCreates)
                  < MaxLocalBookings
          /\ \E data \in CallBookingData :
                inflight' = [inflight EXCEPT
                                ![c] = Request("createBooking", data, NoId)]
       \/ \E id \in CallBookingIds :
             inflight' = [inflight EXCEPT
                             ![c] = Request("cancelBooking", NoData, id)]
    /\ UNCHANGED <<svcVars, favVars, dbVars, mockVars, revVars, res, seed,
                   demoMode>>

\* AuthService.logout up to its await
DispatchLogout(c) ==
    /\ inflight[c].phase # "waiting"
    /\ inflight' = [inflight EXCEPT ![c] = Request("logout", NoData, NoId)]
    /\ UNCHANGED <<svcVars, favVars, dbVars, mockVars, revVars, res, seed,
                   demoMode>>

\* time passes while the request is awaited
Elapse(c) ==
    /\ inflight[c].phase = "waiting"
    /\ inflight[c].waited < TimerSteps
    /\ inflight' = [inflight EXCEPT ![c].waited = @ + 1]
    /\ UNCHANGED <<svcVars, favVars, dbVars, mockVars, revVars, res, seed,
                   demoMode>>

\* Settle as it would be if the overlay were loaded before the await: the
\* catch block mutates and writes back the collection of that time
Settle_stale(c, ro) ==
    LET call == inflight[c]
        bookingIndex == FindIndex(call.loaded, LAMBDA b : b.id = call.id)
        err == IF ro = "ok" THEN ""
               ELSE IF call.op = "createBooking"
               THEN IF UserAfter(ro) = NoUser
                    THEN "You must be logged in to make a booking"
                    ELSE IF ~HasRestaurant(DEMO_RESTAURANTS,
                                           call.data.restaurantId)
                    THEN "Restaurant not found"
                    ELSE ""
               ELSE IF bookingIndex = 0 THEN "Booking not found" ELSE ""
    IN  /\ seed' = seed
        /\ authToken' = TokenAfter(ro)
        /\ storedUser' = UserAfter(ro)
        /\ localBookings' =
               IF ro = "ok" \/ err # "" THEN localBookings
               ELSE IF call.op = "createBooking"
               THEN saveDemoBooking(call.loaded,
                                    NewBooking(call.data, UserAfter(ro)))
               ELSE SetStatus(call.loaded, bookingIndex, "cancelled")
        /\ res' = Result(call.op, PathOf(ro), Kind(err), err,
                         IF call.op = "cancelBooking" THEN call.id
                         ELSE IF ro # "ok" /\ err = "" THEN LocalId(now)
                         ELSE NoId, 0)
        /\ inflight' = [inflight EXCEPT ![c].phase = "done",
                                        ![c].path = res'.path,
                                        ![c].kind = res'.kind,
                                        ![c].id = res'.id]
        /\ UNCHANGED <<now, favVars, dbVars, mockVars, revVars, demoMode>>

\* the await ends with outcome ro: the rest of the try block or the catch
\* block runs to its end without another await
Settle(c, ro) ==
    /\ IF inflight[c].op = "createBooking"
       THEN createBooking(inflight[c].data, ro) /\ UNCHANGED demoMode
       ELSE IF inflight[c].op = "cancelBooking"
       THEN cancelBooking(inflight[c].id, ro) /\ UNCHANGED demoMode
       ELSE logout(ro) /\ UNCHANGED <<localBookings, seed>>
    /\ inflight' = [inflight EXCEPT ![c].phase = "done",
                                    ![c].path = res'.path,
                                    ![c].kind = res'.kind,
                                    ![c].id = res'.id]
    /\ UNCHANGED <<now, favVars, dbVars, mockVars, revVars>>

\* the remote service answers, or the network fails, before the timer
Respond(c) ==
    /\ inflight[c].phase = "waiting"
    /\ timeout > 0 => inflight[c].waited < TimerSteps
    /\ \E ro \in RemoteOutcomes : Settle(c, ro)

\* TimeoutFires as it would be if no timer were armed for a request: a call
\* whose answer never arrives is never rejected
TimeoutFires_unarmed(c) ==
    /\ inflight[c].phase = "waiting"
    /\ FALSE
    /\ UNCHANGED vars

\* the timer of the request fires: axios rejects the request, the response
\* interceptor passes the error on (it has no response), the catch block runs
TimeoutFires(c) ==
    /\ inflight[c].phase = "waiting"
    /\ timeout > 0
    /\ inflight[c].waited = TimerSteps
    /\ Settle(c, "unavailable")

-----------------------------------------------------------------------------

InitCommon ==
    /\ now = StartClock
    /\ authToken = TRUE
    /\ storedUser = SvcUser
    /\ localBookings = <<>>
    /\ localFavourites = <<>>
    /\ dbBookings = <<>>
    /\ dbFavourites = <<>>
    /\ tabs = [t \in Tabs |-> EmptyForm]
    /\ mockBookings = INITIAL_BOOKINGS
    /\ res = InitRes
    /\ prev = InitRes
    /\ localReviews = <<>>
    /\ dbReviews = DbInitialReviews
    /\ dbRatings = DbInitialRatings
    /\ seed = [bookings |-> DemoBookingsData,
               favourites |-> DemoFavouritesData,
               reviews |-> DemoReviewsData]
    /\ inflight = [c \in Calls |-> IdleCall]
    /\ demoMode = TRUE

InitSvc == InitCommon

NextSvc ==
    \/ Login
    \/ CreateBooking
    \/ CancelBooking
    \/ UpdateBookingStatus
    \/ Tick

SpecSvc == InitSvc /\ [][NextSvc]_vars

NextAvail ==
    \/ Login
    \/ CreateBooking
    \/ CancelBooking
    \/ GetAvailableSeats

SpecAvail == InitSvc /\ [][NextAvail]_vars

InitDb == InitCommon

NextDb ==
    \/ FillBookingForm
    \/ HandleBooking
    \/ HandleCancelBooking

SpecDb == InitDb /\ [][NextDb]_vars

NextDbFav ==
    \/ HandleToggleFavourite
    \/ Tick

SpecDbFav == InitDb /\ [][NextDbFav]_vars

NextMock ==
    \/ MockCreate
    \/ MockCancel
    \/ MockAvailability

SpecMock == InitCommon /\ [][NextMock]_vars

NextFav ==
    \/ LoginAs
    \/ Logout
    \/ AddFavourite
    \/ RemoveFavourite
    \/ IsFavourite
    \/ GetMyFavourites
    \/ ToggleFavourite

SpecFav == InitSvc /\ [][NextFav]_vars

NextRead ==
    \/ Login
    \/ CreateBooking
    \/ Tick
    \/ GetMyBookings
    \/ GetRestaurantBookings
    \/ GetAllBookings
    \/ GetBookingById
    \/ GetRestaurantById

SpecRead == InitSvc /\ [][NextRead]_vars

NextUpd ==
    \/ Login
    \/ CreateSmallBooking
    \/ CancelBooking
    \/ UpdateBooking
    \/ GetBookingById
    \/ Tick

SpecUpd == InitSvc /\ [][NextUpd]_vars

NextRev ==
    \/ Login
    \/ CreateReview
    \/ UpdateReview
    \/ DeleteReview
    \/ GetRestaurantReviews
    \/ GetMyReviews
    \/ Tick

SpecRev == InitSvc /\ [][NextRev]_vars

\* the event loop runs the timers: time passes for a request that is awaited
\* and a timer that is due fires; the remote service owes no answer
NextCall ==
    \/ Login
    \/ \E c \in Calls : Dispatch(c)
    \/ \E c \in Calls : Elapse(c)
    \/ \E c \in Calls : Respond(c)
    \/ \E c \in Calls : TimeoutFires(c)

SpecCall ==
    /\ InitSvc
    /\ [][NextCall]_vars
    /\ \A c \in Calls : WF_vars(Elapse(c)) /\ WF_vars(TimeoutFires(c))

NextLogout ==
    \/ Login
    \/ \E c \in Calls : DispatchLogout(c)
    \/ \E c \in Calls : Elapse(c)
    \/ \E c \in Calls : Respond(c)
    \/ \E c \in Calls : TimeoutFires(c)

SpecLogout ==
    /\ InitSvc
    /\ [][NextLogout]_vars
    /\ \A c \in Calls : WF_vars(Elapse(c)) /\ WF_vars(TimeoutFires(c))

\* the three creating operations, before and after the session ends
NextAnon ==
    \/ Logout
    \/ CreateSmallBooking
    \/ CreateReview
    \/ AddFavourite

SpecAnon == InitSvc /\ [][NextAnon]_vars

NextDbRev ==
    \/ HandleSubmitReview
    \/ HandleDeleteReview

SpecDbRev == InitDb /\ [][NextDbRev]_vars

-----------------------------------------------------------------------------
(* The quantities the properties are stated in                             *)

IsActive(b) == b.status = "pending" \/ b.status = "confirmed"

\* summed seats of the pending and confirmed bookings of a slot
ActiveSeats(bookings, rid, d, s) ==
    SumSeats(Filter(bookings, LAMBDA b :
        b.restaurantId = rid /\ b.date = d /\ b.timeSlot = s /\ IsActive(b)))

\* max(0, totalSeats - booked seats) of a known restaurant
Available(restaurants, bookings, rid, d, s) ==
    Max(0, FindRestaurant(restaurants, rid).totalSeats
               - ActiveSeats(bookings, rid, d, s))

\* what a fallback read of the service layer sees: seed, then overlay
SvcBookings == DEMO_BOOKINGS \o localBookings

KnownRestaurantIds ==
    {rid \in RestaurantIds : HasRestaurant(DEMO_RESTAURANTS, rid)}

\* the state table of the booking lifecycle
AllowedTransitions ==
    { <<"pending", "confirmed">>, <<"confirmed", "completed">>,
      <<"pending", "cancelled">>, <<"confirmed", "cancelled">> }

IsTerminal(status) == status = "cancelled" \/ status = "completed"

\* the reviews a fallback read of the service layer sees for a restaurant
SvcReviewsOf(rid) ==
    getDemoReviewsByRestaurantId(rid)
        \o getLocalReviewsByRestaurantId(localReviews, rid)

\* round(mean x 10) of the ratings of a review set, 0 for the empty set: the
\* t with t - 1/2 <= 10 * sum / n < t + 1/2
MeanTenths(reviews) ==
    LET n == Len(reviews)
        sum == SumRatings(reviews)
    IN  IF n = 0 THEN 0
        ELSE CHOOSE t \in 0..50 :
                 (2 * t - 1) * n <= 20 * sum /\ 20 * sum < (2 * t + 1) * n


\* the role of the stored user, "none" when no user is stored
RoleOf(userId) ==
    IF \E i \in 1..Len(DEMO_USERS) : DEMO_USERS[i].id = userId
    THEN (CHOOSE u \in {DEMO_USERS[i] : i \in 1..Len(DEMO_USERS)} :
              u.id = userId).role
    ELSE "none"

\* no slot of a known restaurant holds more active seats than totalSeats
WithinCapacity(bookings) ==
    \A rid \in KnownRestaurantIds, d \in SvcDates, s \in TimeSlots :
        ActiveSeats(bookings, rid, d, s)
            <= FindRestaurant(DEMO_RESTAURANTS, rid).totalSeats

\* x is an element of the list
Contains(list, x) == \E i \in 1..Len(list) : list[i] = x

\* createdAt never grows along the list
NewestFirst(list) ==
    \A i \in 1..Len(list), j \in 1..Len(list) :
        i < j => list[i].createdAt >= list[j].createdAt

\* no two records of a list share an id
UniqueIds(list) ==
    \A i, j \in 1..Len(list) : list[i].id = list[j].id => i = j


-----------------------------------------------------------------------------
(* Properties                                                              *)

\* C1: no overbooking. For every restaurant, date and time slot the seats of
\* the pending and confirmed bookings of the slot (seed and overlay) never sum
\* to more than the restaurant's totalSeats.
C1_NoOverbooking ==
    \A rid \in KnownRestaurantIds, d \in SvcDates, s \in TimeSlots :
        ActiveSeats(SvcBookings, rid, d, s)
            <= FindRestaurant(DEMO_RESTAURANTS, rid).totalSeats

\* C2: check and write of a booking request are one atomic unit. A submit
\* writes a booking only when its seats fit into what is available for its
\* slot at the moment of the write, so two requests cannot both pass the check
\* and both write more than was available.
C2_CheckAndWriteAtomic ==
    [][ \A t \in Tabs, n \in DbSeatChoices :
          (handleBooking(t, n) /\ dbBookings' # dbBookings)
              => n <= Available(DbRestaurants, dbBookings, tabs[t].restaurant,
                                tabs[t].bookingDate, tabs[t].timeSlot) ]_vars

\* C3: the availability query answers max(0, totalSeats - seats of the
\* pending and confirmed bookings of exactly that restaurant, date and slot).
C3_AvailabilityFormula ==
    (res.op = "getAvailableSeats" /\ res.path = "fallback" /\ res.kind = "ok")
        => res.val = Available(DEMO_RESTAURANTS, SvcBookings,
                               res.key[1], res.key[2], res.key[3])

\* C4: the availability query never returns a negative number, whatever
\* bookings are stored for the slot.
C4_AvailabilityNeverNegative ==
    \A slot \in DbSlots :
        DbGetAvailableSeats(dbBookings, slot[1], slot[2], slot[3]) >= 0

\* C5: a createBooking asking for more seats than are available for its slot
\* fails with CapacityExceeded carrying the available count and stores
\* nothing.
C5_CapacityExceededRejected ==
    [][ \A data \in BookingData, ro \in RemoteOutcomes :
          ( /\ createBooking(data, ro)
            /\ ro # "ok"
            /\ UserAfter(ro) # NoUser
            /\ data.restaurantId \in KnownRestaurantIds
            /\ data.seats > Available(DEMO_RESTAURANTS, SvcBookings,
                                      data.restaurantId, data.date,
                                      data.timeSlot) )
          => ( /\ res'.kind = "error"
               /\ res'.err = "CapacityExceeded"
               /\ res'.val = Available(DEMO_RESTAURANTS, SvcBookings,
                                       data.restaurantId, data.date,
                                       data.timeSlot)
               /\ localBookings' = localBookings ) ]_vars

\* C6: lifecycle closure. A cancelled or completed booking never changes its
\* status again, and every cancelBooking or updateBookingStatus on it fails
\* with InvalidTransition.
C6_LifecycleClosure ==
    [][ /\ \A i \in 1..Len(localBookings) :
              IsTerminal(localBookings[i].status)
                  => /\ i <= Len(localBookings')
                     /\ localBookings'[i].status = localBookings[i].status
        /\ \A id \in BookingIds, ro \in RemoteOutcomes :
              LET i == FindIndex(localBookings, LAMBDA b : b.id = id)
              IN  ( /\ ro # "ok"
                    /\ i # 0
                    /\ IsTerminal(localBookings[i].status)
                    /\ \/ cancelBooking(id, ro)
                       \/ \E status \in Statuses :
                              updateBookingStatus(id, status, ro) )
                  => (res'.kind = "error" /\ res'.err = "InvalidTransition")
      ]_vars

\* C7: updateBookingStatus succeeds only for pending->confirmed,
\* confirmed->completed, pending->cancelled and confirmed->cancelled; on any
\* other pair it fails with InvalidTransition and leaves the booking unchanged.
C7_OnlyTableTransitions ==
    [][ \A id \in BookingIds, status \in Statuses, ro \in RemoteOutcomes :
          LET i == FindIndex(localBookings, LAMBDA b : b.id = id)
          IN  ( /\ updateBookingStatus(id, status, ro)
                /\ ro # "ok"
                /\ i # 0
                /\ <<localBookings[i].status, status>> \notin AllowedTransitions )
              => ( /\ res'.kind = "error"
                   /\ res'.err = "InvalidTransition"
                   /\ localBookings' = localBookings ) ]_vars

\* C8: a booking has status pending right after the createBooking call that
\* created it, in each of the three implementations.
C8_CreatedPending ==
    /\ (res.op = "createBooking" /\ res.path = "fallback" /\ res.kind = "ok")
           => localBookings[Len(localBookings)].status = "pending"
    /\ (res.op = "handleBooking" /\ res.kind = "ok")
           => dbBookings[Len(dbBookings)].status = "pending"
    /\ (res.op = "mockCreateBooking" /\ res.kind = "ok")
           => mockBookings[Len(mockBookings)].status = "pending"

\* C9: among the records a favourites read returns (seed and overlay) there
\* is at most one for every pair of user and restaurant.
C9_OneFavouritePerPair ==
    \A user \in DemoCustomers :
        LET favs == MyFavouritesFallback(localFavourites, user)
        IN  \A i, j \in 1..Len(favs) :
                favs[i].restaurantId = favs[j].restaurantId => i = j

\* C10: toggle involution. Two consecutive toggleFavourite calls of the same
\* user for the same restaurant return opposite values, the first one true
\* exactly when the restaurant was no favourite, and the membership after the
\* second call is the membership before the first.
C10_ToggleInvolution ==
    ( /\ prev.op = "toggleFavourite"
      /\ res.op = "toggleFavourite" /\ res.path = "fallback" /\ res.kind = "ok"
      /\ res.key[1] = prev.key[1] /\ res.key[2] = prev.key[2] )
    => ( /\ res.val = 1 - prev.val
         /\ prev.val = Bit(prev.key[3] = "none")
         /\ IsFavouriteFallback(localFavourites, res.key[2], res.key[1])
                = (prev.key[3] = "favourite") )

\* C11: toggleFavourite deletes the record and returns false when the pair is
\* a favourite, otherwise creates one and returns true, and the value it
\* returns is what isFavourite reports right after the call.
C11_ToggleAgreesWithIsFavourite ==
    (res.op = "toggleFavourite" /\ res.path = "fallback" /\ res.kind = "ok")
    => ( /\ res.val = Bit(res.key[3] = "none")
         /\ res.val = Bit(IsFavouriteFallback(localFavourites, storedUser,
                                              res.key[1])) )

\* C12: after a review creation or deletion for a restaurant, the
\* restaurant's totalReviews is the number of reviews stored for it and its
\* rating is the mean of their ratings rounded to one decimal place (0 and 0
\* when no review remains), in the service layer and in the Database.
C12_RatingAggregation ==
    /\ ( /\ res.op \in {"createReview", "deleteReview"}
         /\ res.path = "fallback" /\ res.kind = "ok"
         /\ HasRestaurant(DEMO_RESTAURANTS, res.key[1]) )
       => LET r == FindRestaurant(DEMO_RESTAURANTS, res.key[1])
          IN  /\ r.totalReviews = Len(SvcReviewsOf(res.key[1]))
              /\ r.rating = MeanTenths(SvcReviewsOf(res.key[1]))
    /\ (res.op \in {"handleSubmitReview", "dbDeleteReview"} /\ res.kind = "ok")
       => LET rs == getReviewsByRestaurant(dbReviews, res.key[1])
          IN  /\ dbRatings[res.key[1]].totalReviews = Len(rs)
              /\ dbRatings[res.key[1]].rating = MeanTenths(rs)

\* C13: no list read served by the fallback path returns two records with
\* the same id, whatever fallback creates (ids minted from Date.now()) came
\* before.
C13_FallbackReadsUniqueIds ==
    /\ \A user \in DemoCustomers :
          /\ UniqueIds(MyBookingsFallback(localBookings, user))
          /\ UniqueIds(MyReviewsFallback(localReviews, user))
          /\ UniqueIds(MyFavouritesFallback(localFavourites, user))
    /\ UniqueIds(AllBookingsFallback(localBookings, NoFilters))
    /\ \A rid \in KnownRestaurantIds :
          /\ UniqueIds(RestaurantBookingsFallback(localBookings, rid, NoFilters))
          /\ UniqueIds(RestaurantReviewsFallback(localReviews, rid))

\* C14: a 401 answer is no fallback trigger. The operation that received it
\* fails towards its caller (the text of the error is left open here), so it
\* returns no seed or overlay data, it writes nothing to the overlay, and the
\* token and the stored user are removed.
C14_UnauthorizedNotFallback ==
    [][ ( \/ \E id \in RestaurantIds : getRestaurantById(id, "unauthorized")
          \/ \E id \in BookingIds : getBookingById(id, "unauthorized")
          \/ getMyBookings("unauthorized")
          \/ \E f \in ReadFilters : getAllBookings(f, "unauthorized")
          \/ \E rid \in RestaurantIds, f \in ReadFilters :
                 getRestaurantBookings(rid, f, "unauthorized")
          \/ \E data \in BookingData : createBooking(data, "unauthorized")
          \/ \E id \in BookingIds : cancelBooking(id, "unauthorized")
          \/ \E id \in BookingIds, status \in Statuses :
                 updateBookingStatus(id, status, "unauthorized") )
        => ( /\ res'.kind = "error"
             /\ localBookings' = localBookings
             /\ ~authToken'
             /\ storedUser' = NoUser ) ]_vars

\* C15: only remote unavailability is recovered by fallback. When the remote
\* service answers with another error (a validation or capacity rejection),
\* the operation fails with that error and no overlay record is created or
\* changed.
C15_OnlyUnavailabilityFallsBack ==
    [][ ( \/ \E data \in BookingData : createBooking(data, "rejected")
          \/ \E id \in BookingIds : cancelBooking(id, "rejected")
          \/ \E id \in BookingIds, status \in Statuses :
                 updateBookingStatus(id, status, "rejected")
          \/ \E data \in ReviewData : createReview(data, "rejected") )
        => ( /\ res'.kind = "error"
             /\ localBookings' = localBookings
             /\ localReviews' = localReviews ) ]_vars

C18_CreateCancelAvailability ==
    [][ /\ \A data \in BookingData, ro \in RemoteOutcomes :
              ( /\ res'.op = "createBooking" /\ res'.path = "fallback"
                /\ res'.kind = "ok"
                /\ createBooking(data, ro)
                /\ data.seats <= Available(DEMO_RESTAURANTS, SvcBookings,
                                           data.restaurantId, data.date,
                                           data.timeSlot) )
              => \A before, after \in Draws(data.restaurantId, ro) :
                     after = before - data.seats
        /\ \A id \in BookingIds, ro \in RemoteOutcomes :
              LET i == FindIndex(localBookings, LAMBDA b : b.id = id)
              IN  ( /\ res'.op = "cancelBooking" /\ res'.path = "fallback"
                    /\ res'.kind = "ok"
                    /\ cancelBooking(id, ro)
                    /\ IsActive(localBookings[i]) )
                  => \A before, after \in
                            Draws(localBookings[i].restaurantId, ro) :
                         after = before + localBookings[i].seats
        /\ \A t \in Tabs, n \in DbSeatChoices :
              LET f == tabs[t]
                  before == DbGetAvailableSeats(dbBookings, f.restaurant,
                                                f.bookingDate, f.timeSlot)
              IN  ( /\ res'.op = "handleBooking" /\ res'.kind = "ok"
                    /\ handleBooking(t, n)
                    /\ n <= before )
                  => DbGetAvailableSeats(dbBookings', f.restaurant,
                                         f.bookingDate, f.timeSlot)
                         = before - n
        /\ \A i \in 1..Len(dbBookings) :
              LET b == dbBookings[i]
                  before == DbGetAvailableSeats(dbBookings, b.restaurantId,
                                                b.date, b.timeSlot)
              IN  ( /\ res'.op = "handleCancelBooking"
                    /\ handleCancelBooking(b.id)
                    /\ IsActive(b) )
                  => DbGetAvailableSeats(dbBookings', b.restaurantId, b.date,
                                         b.timeSlot)
                         = before + b.seats
      ]_vars

\* C19: cancelBooking reports NotFound only for an id that no tier holds.
\* For a booking getBookingById returns on the fallback path, from the seed
\* dataset or from the overlay, a fallback cancelBooking does not fail with
\* 'Booking not found'.
C19_CancelNotFoundOnlyWhenAbsent ==
    ( /\ res.op = "cancelBooking" /\ res.path = "fallback"
      /\ res.kind = "error" /\ res.err = "Booking not found" )
    => BookingByIdFallback(localBookings, res.id) = <<>>

\* C20: every stored booking has at least one seat. A createBooking of less
\* than one seat stores nothing, and no updateBooking brings the seats of a
\* booking below one.
C20_SeatsAtLeastOne ==
    \A i \in 1..Len(localBookings) : localBookings[i].seats >= 1

-----------------------------------------------------------------------------
\* C21: every list query that the fallback path serves (getMyBookings,
\* getRestaurantBookings, getAllBookings, getRestaurantReviews, getMyReviews,
\* getMyFavourites) returns its records ordered by createdAt descending,
\* newest first.
C21_FallbackListsNewestFirst ==
    (/\ res.path = "fallback"
     /\ res.kind = "ok"
     /\ res.op \in {"getMyBookings", "getRestaurantBookings", "getAllBookings",
                    "getRestaurantReviews", "getMyReviews", "getMyFavourites"})
        => NewestFirst(res.list)

\* C22: after an updateReview that changes the rating of a review, the
\* restaurant of the review has totalReviews equal to the number of reviews
\* stored for it and rating equal to their mean rounded to one decimal place.
C22_UpdateReviewReaggregates ==
    [][ ( /\ res'.op = "updateReview"
          /\ res'.kind = "ok"
          /\ localReviews' # localReviews
          /\ HasRestaurant(DEMO_RESTAURANTS, res'.key[1]) )
        => LET r == FindRestaurant(DEMO_RESTAURANTS, res'.key[1])
               rs == getDemoReviewsByRestaurantId(res'.key[1])
                         \o getLocalReviewsByRestaurantId(localReviews',
                                                          res'.key[1])
           IN  /\ r.totalReviews = Len(rs)
               /\ r.rating = MeanTenths(rs) ]_vars

\* C23: updateBookingStatus moves a booking to confirmed or completed only
\* when the user who calls it has the role manager or admin; called by a
\* customer (or with no user stored) it gives no booking the status confirmed
\* or completed.
C23_StatusRoleGated ==
    [][ ( /\ res'.op = "updateBookingStatus"
          /\ RoleOf(storedUser) \notin {"manager", "admin"} )
        => \A i \in 1..Len(localBookings) :
               localBookings'[i].status \in {"confirmed", "completed"}
                   => localBookings'[i].status = localBookings[i].status ]_vars

\* C24: every call that awaits its api request eventually returns or throws,
\* also when the remote service never answers; a call that the timeout ends
\* is served by its catch block like a call whose request failed.
C24_CallsComplete ==
    /\ \A c \in Calls :
          (inflight[c].phase = "waiting") ~> (inflight[c].phase = "done")
    /\ [][ \A c \in Calls :
              ( /\ inflight[c].phase = "waiting"
                /\ inflight[c].waited = TimerSteps
                /\ inflight'[c].phase = "done" )
              => inflight'[c].path = "fallback" ]_vars

\* a call that waited for the whole timeout and was then served by the
\* fallback path
C24_Witness ==
    \E c \in Calls :
        /\ inflight[c].phase = "done"
        /\ inflight[c].waited = TimerSteps
        /\ inflight[c].path = "fallback"
        /\ inflight[c].kind = "ok"

\* C25: every operation makes at most one api request per invocation,
\* toggleFavourite included; when that request has failed the outcome comes
\* from the seed and the overlay alone, never from a further remote answer.
C25_SingleRemoteAttempt ==
    /\ res.calls <= 1
    /\ res.path \in {"local", "remote", "fallback"}

\* C26: a fallback write that lands after another write to the bookings
\* overlay, made while its own request was awaited, keeps that write: a
\* createBooking appends its booking to the collection as it is now, a
\* cancelBooking changes the status of its booking and nothing else.
C26_OverlappedWritesKept ==
    [][ \A c \in Calls :
          ( /\ inflight[c].phase = "waiting"
            /\ inflight'[c].phase = "done"
            /\ inflight'[c].path = "fallback"
            /\ inflight'[c].kind = "ok"
            /\ inflight[c].loaded # localBookings )
          => IF inflight[c].op = "createBooking"
             THEN /\ Len(localBookings') = Len(localBookings) + 1
                  /\ SubSeq(localBookings', 1, Len(localBookings))
                         = localBookings
                  /\ localBookings'[Len(localBookings')].id = inflight'[c].id
             ELSE /\ Len(localBookings') = Len(localBookings)
                  /\ \A i \in 1..Len(localBookings) :
                         \/ localBookings'[i] = localBookings[i]
                         \/ /\ localBookings[i].id = inflight[c].id
                            /\ localBookings'[i] =
                                   [localBookings[i] EXCEPT
                                       !.status = "cancelled"]
                  /\ \E i \in 1..Len(localBookings) :
                         /\ localBookings'[i].id = inflight[c].id
                         /\ localBookings'[i].status = "cancelled" ]_vars

\* a createBooking and a cancelBooking sent on the same collection, both
\* served by the fallback path, and the collection showing both writes
C26_Witness ==
    \E c1, c2 \in Calls :
        /\ inflight[c1].op = "createBooking"
        /\ inflight[c2].op = "cancelBooking"
        /\ \A c \in {c1, c2} :
               /\ inflight[c].phase = "done"
               /\ inflight[c].path = "fallback"
               /\ inflight[c].kind = "ok"
        /\ inflight[c1].loaded = inflight[c2].loaded
        /\ Len(localBookings) = Len(inflight[c1].loaded) + 1
        /\ \E i \in 1..Len(inflight[c2].loaded) :
               /\ inflight[c2].loaded[i].status = "pending"
               /\ localBookings[i].status = "cancelled"

\* C27: every logout ends, whether its api request succeeds, fails or times
\* out, and when it ends the token, the stored user and the demo-mode flag
\* are gone: isAuthenticated() is false and getStoredUser() is null.
C27_LogoutClearsSession ==
    /\ \A c \in Calls :
          (inflight[c].phase = "waiting" /\ inflight[c].op = "logout")
              ~> (inflight[c].phase = "done")
    /\ [][ \A c \in Calls :
              ( /\ inflight[c].op = "logout"
                /\ inflight[c].phase = "waiting"
                /\ inflight'[c].phase = "done" )
              => /\ ~isAuthenticated'
                 /\ getStoredUser' = NoUser
                 /\ ~demoMode' ]_vars

\* a logout whose request timed out, ended with the session cleared
C27_Witness ==
    \E c \in Calls :
        /\ inflight[c].op = "logout"
        /\ inflight[c].phase = "done"
        /\ inflight[c].waited = TimerSteps
        /\ inflight[c].path = "fallback"
        /\ ~isAuthenticated
        /\ getStoredUser = NoUser
        /\ ~demoMode

\* C28: read-your-writes under fallback. Every booking a fallback
\* createBooking stored is the one a fallback getBookingById returns for its
\* id, with the status it has now, and it is in the fallback getMyBookings
\* of its creator and in the fallback getAllBookings.
C28_ReadYourWrites ==
    \A i \in 1..Len(localBookings) :
        LET b == localBookings[i]
        IN  /\ ( /\ res.op = "getBookingById"
                 /\ res.path = "fallback"
                 /\ res.id = b.id )
               => (res.kind = "ok" /\ res.list = <<b>>)
            /\ Contains(MyBookingsFallback(localBookings, b.userId), b)
            /\ Contains(AllBookingsFallback(localBookings, NoFilters), b)

\* C29: a createBooking, createReview or addFavourite that the fallback path
\* serves while no user is stored fails with an error and leaves the three
\* overlay collections as they were.
C29_NoUserNoWrite ==
    [][ ( /\ res'.op \in {"createBooking", "createReview", "addFavourite"}
          /\ res'.path = "fallback"
          /\ getStoredUser' = NoUser )
        => /\ res'.kind = "error"
           /\ UNCHANGED <<localBookings, localReviews, localFavourites>> ]_vars

\* an addFavourite refused for want of a stored user, with records in the
\* overlay
C29_Witness ==
    /\ res.op = "addFavourite"
    /\ res.path = "fallback"
    /\ res.err = "You must be logged in to add favourites"
    /\ getStoredUser = NoUser
    /\ localBookings # <<>>
    /\ localReviews # <<>>
    /\ localFavourites # <<>>

\* C30: updateBooking preserves the capacity bound. When no slot holds more
\* active seats than its restaurant's totalSeats before an updateBooking,
\* none does after it.
C30_UpdateKeepsCapacity ==
    [][ (res'.op = "updateBooking" /\ WithinCapacity(SvcBookings))
        => WithinCapacity(SvcBookings') ]_vars

====
